---- MODULE Spec2Model ----
(***************************************************************************)
(* Blogicum: the request handlers of blog/views.py over the stored posts,  *)
(* comments, categories and users.  Each handler is an operator from the   *)
(* stored state and one request to the response and the state it leaves;   *)
(* an action is one whole request handled that way (or a clock tick, a     *)
(* re-import of the views module, an admin edit of a category).  Edits of  *)
(* posts and comments through the admin site are not requests of these     *)
(* handlers and are left out.                                              *)
(***************************************************************************)
EXTENDS Integers, FiniteSets, Sequences, TLC

\* ------------------------------------------------------------------ bounds
MaxTime == 1        \* the clock runs over 0..MaxTime
MaxPosts == 1       \* post primary keys handed out while editing
MaxComments == 2    \* comment primary keys ever handed out
MaxListed == MaxPosts + 1   \* post primary keys handed out while publishing

\* ------------------------------------------------------------ finite domains
Anonymous == 0                       \* request.user of an unauthenticated request
Users == {1, 2}                      \* primary keys of the registered users
Requesters == Users \cup {Anonymous}
Names == {"ann", "bob", "cat"}       \* usernames a profile form may carry
Categories == {"news", "draft"}      \* slugs of the stored categories
NoSuchSlug == "nosuch"               \* a slug no category has
Times == 0..MaxTime
PostKeys == 1..MaxListed
CommentKeys == 1..MaxComments
Texts == {"a", "b"}                  \* non-blank comment texts
Blank == ""                          \* a blank required field
Methods == {"GET", "POST"}            \* request.method

VARIABLES
    now,          \* timezone.now(): the wall clock
    importTime,   \* the clock when blog/views.py was imported (class bodies ran)
    categories,   \* slug -> is_published
    users,        \* user pk -> username
    posts,        \* post pk -> [author, category, is_published, pub_date]
    comments,     \* comment pk -> [author, post, text]
    nextPost,     \* next post pk the store hands out
    nextComment,  \* next comment pk the store hands out
    actor         \* request.user of the request the last step handled

vars == <<now, importTime, categories, users, posts, comments,
          nextPost, nextComment, actor>>

\* ---------------------------------------------------------------- responses
NoList == {}

Response(kind, view, pk, username, list) ==
    [kind |-> kind, view |-> view, pk |-> pk, username |-> username, list |-> list]

\* render(template) with a listing in the context
Page(view, list) == Response("page", view, 0, "", list)

\* render of a form or confirmation template
FormPage(view, pk) == Response("form", view, pk, "", NoList)

Redirect(view, pk) == Response("redirect", view, pk, "", NoList)

RedirectProfile(username) == Response("redirect", "profile", 0, username, NoList)

\* LoginRequiredMixin.handle_no_permission / login_required
RedirectLogin == Response("redirect", "login", 0, "", NoList)

\* get_object_or_404 raising Http404
NotFound == Response("not_found", "", 0, "", NoList)

\* what a handler leaves behind: its response and the stored rows
Outcome(resp, us, ps, cs, np, nc) ==
    [resp |-> resp, users |-> us, posts |-> ps, comments |-> cs,
     nextPost |-> np, nextComment |-> nc]

\* a handler that returns resp and writes nothing
Untouched(resp) == Outcome(resp, users, posts, comments, nextPost, nextComment)

\* ------------------------------------------------------------------ lookups
\* get_object_or_404(Post, pk=pk): the unfiltered default manager
PostExists(pk) == pk \in DOMAIN posts

\* get_object_or_404(Comment, id=comment_id)
CommentExists(id) == id \in DOMAIN comments

\* get_object_or_404(User, username=username): the users bearing the name
UsersNamed(username) == {u \in Users : users[u] = username}

\* request.user.is_authenticated
IsAuthenticated(user) == user # Anonymous

\* a guard that lets every logged-in user through
IsLoggedIn(user, author) == IsAuthenticated(user)

\* the comparison request.user != entity.author, negated
IsAuthor(user, author) == user = author

\* ------------------------------------------------------------------ querysets
\* PostsMixin.queryset: built once, in the class body, with the clock of the
\* import; each request re-runs the same query against the stored rows.
PostsMixinQueryset ==
    {pk \in DOMAIN posts :
        /\ posts[pk].is_published
        /\ categories[posts[pk].category]
        /\ posts[pk].pub_date <= importTime}

\* CategoryPostsListView.get_category
CategoryFound(slug) == slug \in Categories /\ categories[slug]

\* CategoryPostsListView.get_queryset, for a category get_category found
CategoryQueryset(slug) ==
    {pk \in DOMAIN posts :
        /\ posts[pk].category = slug
        /\ posts[pk].is_published
        /\ posts[pk].pub_date <= now}

\* ProfileDetailView.get_queryset, for the author get_object_or_404 found
ProfileQueryset(user, author) ==
    IF user = author
    THEN {pk \in DOMAIN posts : posts[pk].author = author}
    ELSE {pk \in DOMAIN posts :
            /\ posts[pk].author = author
            /\ posts[pk].pub_date <= now
            /\ posts[pk].is_published}

\* ---------------------------------------------------------------- the store
\* a table with the row of key pk written
Put(rows, pk, row) ==
    [k \in (DOMAIN rows) \cup {pk} |-> IF k = pk THEN row ELSE rows[k]]

\* a table without the rows whose keys are in gone
Without(rows, gone) == [k \in (DOMAIN rows) \ gone |-> rows[k]]

\* Model.save() of one instance: INSERT under a fresh key when the instance has
\* no pk yet (pk = 0), UPDATE of its row otherwise
ModelSave(st, row) ==
    IF st.pk = 0
    THEN [rows |-> Put(st.rows, st.next, row), next |-> st.next + 1, pk |-> st.next]
    ELSE [rows |-> Put(st.rows, st.pk, row), next |-> st.next, pk |-> st.pk]

\* the comments a post's deletion takes with it (Comment.post, on_delete)
CommentsOfPost(pk) == {id \in DOMAIN comments : comments[id].post = pk}

\* a delete that takes the whole thread of the comment's post
DeletedThread(id) == CommentsOfPost(comments[id].post)

\* the rows CommentDeleteView deletes: self.object, which get_object finds by id
DeletedComments(id) == {id}

\* ------------------------------------------------------------------- forms
\* A request body: the method and the POST keys sent with it.  A GET carries
\* no POST data; author is no field of PostForm.
PostForms ==
    [method : {"POST"}, category : Categories \cup {NoSuchSlug},
     is_published : BOOLEAN, pub_date : Times, author : Users]
    \cup [method : {"GET"}, category : {NoSuchSlug}, is_published : {FALSE},
          pub_date : {0}, author : {1}]

\* the post forms of an editing session that leaves scheduling and categories
\* alone: published or not, dated 0, in the category "news"
PlainPostForms ==
    {form \in PostForms : form.pub_date = 0 /\ form.category # "draft"}

\* PostForm.is_valid(): category must be a stored category
PostFormValid(form) == form.category \in Categories

\* an instance whose author is the form's, as if author were a field of PostForm
PostInstanceFromForm(author, form) ==
    [author |-> form.author, category |-> form.category,
     is_published |-> form.is_published, pub_date |-> form.pub_date]

\* the instance PostForm builds: every field but author comes from the form
PostInstance(author, form) ==
    [author |-> author, category |-> form.category,
     is_published |-> form.is_published, pub_date |-> form.pub_date]

\* the POST keys a comment form may carry; post and author are no fields of
\* CommentForm
CommentForms ==
    [method : {"POST"}, text : Texts \cup {Blank}, post : PostKeys, author : Users]
    \cup [method : {"GET"}, text : {Blank}, post : {1}, author : {1}]

\* CommentForm.is_valid(): text is required
CommentFormValid(text) == text # Blank

\* a comment whose post and author are the form's
CommentInstanceFromForm(user, pk, form) ==
    [author |-> form.author, post |-> form.post, text |-> form.text]

\* the comment add_comment saves: form.save(commit=False), then author and
\* post are set from the request
CommentInstance(user, pk, form) ==
    [author |-> user, post |-> pk, text |-> form.text]

UserForms ==
    [method : {"POST"}, username : Names \cup {Blank}]
    \cup [method : {"GET"}, username : {Blank}]

\* the profile forms of an editing session that renames nobody: the name
\* "ann" (kept by its bearer, taken for anyone else), or none
PlainUserForms == {form \in UserForms : form.username \in {"ann", Blank}}

\* the method of a request that carries no form (a delete)
Deletes == [method : Methods]

\* UserForm.is_valid() for the instance user: username required and unique
UserFormValid(user, form) ==
    /\ form.username # Blank
    /\ \A u \in Users \ {user} : users[u] # form.username

\* UpdateView.get_success_url() of PostUpdateView: Post.get_absolute_url()
PostSuccessUrl(pk) == Redirect("post_detail", pk)

\* ------------------------------------------------------------ listing handlers
\* IndexListView.get: ListView.get_queryset returns PostsMixin.queryset.all()
IndexListView == Untouched(Page("index", PostsMixinQueryset))

\* CategoryPostsListView.get
CategoryPostsListView(slug) ==
    IF CategoryFound(slug)
    THEN Untouched(Page("category", CategoryQueryset(slug)))
    ELSE Untouched(NotFound)

\* ProfileDetailView.get
ProfileDetailView(user, username) ==
    IF UsersNamed(username) = {}
    THEN Untouched(NotFound)
    ELSE LET author == CHOOSE u \in UsersNamed(username) : TRUE
         IN  Untouched(Page("profile", ProfileQueryset(user, author)))

\* ------------------------------------------------------------------ dispatch
\* what a dispatch override answers when it hands the request on:
\* super().dispatch(request, *args, **kwargs)
Super == Response("super", "", 0, "", NoList)

\* LoginRequiredMixin.dispatch, and the @login_required wrapper
LoginRequired(user) == IF IsAuthenticated(user) THEN Super ELSE RedirectLogin

\* PostUpdateView.dispatch: runs before LoginRequiredMixin.dispatch, which is
\* reached only through super().dispatch
PostUpdateDispatch(user, pk) ==
    IF ~PostExists(pk) THEN NotFound
    ELSE IF ~IsAuthor(user, posts[pk].author) THEN Redirect("post_detail", pk)
    ELSE LoginRequired(user)

\* PostDeleteView.dispatch
PostDeleteDispatch(user, pk) ==
    IF ~PostExists(pk) THEN NotFound
    ELSE IF ~IsAuthor(user, posts[pk].author) THEN Redirect("index", 0)
    ELSE LoginRequired(user)

\* CommentMixin.dispatch
CommentDispatch(user, id) ==
    IF ~CommentExists(id) THEN NotFound
    ELSE IF ~IsAuthor(user, comments[id].author)
    THEN Redirect("post_detail", comments[id].post)
    ELSE LoginRequired(user)

\* add_comment up to the form: @login_required, then get_object_or_404(Post)
AddCommentDispatch(user, pk) ==
    IF ~IsAuthenticated(user) THEN RedirectLogin
    ELSE IF ~PostExists(pk) THEN NotFound
    ELSE Super

\* ----------------------------------------------------------- post handlers
\* PostCreateView (PostMixin, LoginRequiredMixin, CreateView)
PostCreateView(user, form) ==
    IF LoginRequired(user) # Super THEN Untouched(LoginRequired(user))
    ELSE IF form.method = "GET" \/ ~PostFormValid(form) THEN Untouched(FormPage("create", 0))
    ELSE LET row == PostInstance(user, form)
             first == ModelSave([rows |-> posts, next |-> nextPost, pk |-> 0], row)
             second == ModelSave(first, row)
         IN  Outcome(RedirectProfile(users[user]), users, second.rows, comments,
                     second.next, nextComment)

\* PostUpdateView (PostMixin, LoginRequiredMixin, UpdateView)
PostUpdateView(user, pk, form) ==
    IF PostUpdateDispatch(user, pk) # Super THEN Untouched(PostUpdateDispatch(user, pk))
    ELSE IF form.method = "GET" \/ ~PostFormValid(form) THEN Untouched(FormPage("create", pk))
    ELSE Outcome(PostSuccessUrl(pk), users,
                 Put(posts, pk, PostInstance(posts[pk].author, form)),
                 comments, nextPost, nextComment)

\* PostDeleteView (PostMixin, LoginRequiredMixin, DeleteView)
PostDeleteView(user, pk, form) ==
    IF PostDeleteDispatch(user, pk) # Super THEN Untouched(PostDeleteDispatch(user, pk))
    ELSE IF form.method = "GET" THEN Untouched(FormPage("create", pk))
    ELSE Outcome(Redirect("index", 0), users, Without(posts, {pk}),
                 Without(comments, CommentsOfPost(pk)), nextPost, nextComment)

\* -------------------------------------------------------- comment handlers
\* add_comment
add_comment(user, pk, form) ==
    IF AddCommentDispatch(user, pk) # Super THEN Untouched(AddCommentDispatch(user, pk))
    ELSE IF ~CommentFormValid(form.text)
    THEN Untouched(Redirect("post_detail", pk))
    ELSE LET saved == ModelSave([rows |-> comments, next |-> nextComment, pk |-> 0],
                                CommentInstance(user, pk, form))
         IN  Outcome(Redirect("post_detail", pk), users, posts, saved.rows,
                     nextPost, saved.next)

\* CommentUpdateView (CommentMixin, LoginRequiredMixin, UpdateView)
CommentUpdateView(user, id, form) ==
    IF CommentDispatch(user, id) # Super THEN Untouched(CommentDispatch(user, id))
    ELSE IF form.method = "GET" \/ ~CommentFormValid(form.text)
    THEN Untouched(FormPage("comment", id))
    ELSE Outcome(Redirect("post_detail", comments[id].post), users, posts,
                 Put(comments, id, [comments[id] EXCEPT !.text = form.text]),
                 nextPost, nextComment)

\* CommentDeleteView (CommentMixin, LoginRequiredMixin, DeleteView)
CommentDeleteView(user, id, form) ==
    IF CommentDispatch(user, id) # Super THEN Untouched(CommentDispatch(user, id))
    ELSE IF form.method = "GET" THEN Untouched(FormPage("comment", id))
    ELSE Outcome(Redirect("post_detail", comments[id].post), users, posts,
                 Without(comments, DeletedComments(id)), nextPost, nextComment)

\* ----------------------------------------------------------- profile handler
\* ProfileUpdateView (LoginRequiredMixin, UpdateView): get_object is request.user
ProfileUpdateView(user, form) ==
    IF LoginRequired(user) # Super THEN Untouched(LoginRequired(user))
    ELSE IF form.method = "GET" \/ ~UserFormValid(user, form) THEN Untouched(FormPage("user", 0))
    ELSE Outcome(RedirectProfile(form.username),
                 [users EXCEPT ![user] = form.username],
                 posts, comments, nextPost, nextComment)

\* ------------------------------------------------------------------- initial
Init ==
    /\ now = 0
    /\ importTime = 0
    /\ categories = [c \in Categories |-> c = "news"]
    /\ users = [u \in Users |-> IF u = 1 THEN "ann" ELSE "bob"]
    /\ posts = <<>>
    /\ comments = <<>>
    /\ nextPost = 1
    /\ nextComment = 1
    /\ actor = Anonymous

\* ------------------------------------------------------------------ actions
\* one request by user, handled to outcome o
Handled(user, o) ==
    /\ actor' = user
    /\ users' = o.users
    /\ posts' = o.posts
    /\ comments' = o.comments
    /\ nextPost' = o.nextPost
    /\ nextComment' = o.nextComment
    /\ UNCHANGED <<now, importTime, categories>>

\* the wall clock advances
Tick ==
    /\ now < MaxTime
    /\ now' = now + 1
    /\ UNCHANGED <<importTime, categories, users, posts, comments,
                   nextPost, nextComment, actor>>

\* the server process restarts: blog/views.py is imported again and the class
\* body of PostsMixin reads the clock
ImportViews ==
    /\ importTime' = now
    /\ UNCHANGED <<now, categories, users, posts, comments,
                   nextPost, nextComment, actor>>

\* CategoryAdmin: a staff user flips a category's is_published
CategoryAdmin ==
    \E c \in Categories :
        /\ categories' = [categories EXCEPT ![c] = ~categories[c]]
        /\ UNCHANGED <<now, importTime, users, posts, comments,
                       nextPost, nextComment, actor>>

Index == \E user \in Requesters : Handled(user, IndexListView)

CategoryPosts ==
    \E user \in Requesters, slug \in Categories \cup {NoSuchSlug} :
        Handled(user, CategoryPostsListView(slug))

Profile ==
    \E user \in Requesters, username \in Names :
        Handled(user, ProfileDetailView(user, username))

\* A request a dispatch turns away is handled without its form being read,
\* so one step stands for it whatever form it carries.
PostCreate(forms, cap) ==
    \E user \in Requesters :
        /\ nextPost <= cap
        /\ IF LoginRequired(user) = Super
           THEN \E form \in forms : Handled(user, PostCreateView(user, form))
           ELSE Handled(user, Untouched(LoginRequired(user)))

PostUpdate(forms) ==
    \E user \in Requesters, pk \in PostKeys :
        IF PostUpdateDispatch(user, pk) = Super
        THEN \E form \in forms : Handled(user, PostUpdateView(user, pk, form))
        ELSE Handled(user, Untouched(PostUpdateDispatch(user, pk)))

PostDelete ==
    \E user \in Requesters, pk \in PostKeys :
        IF PostDeleteDispatch(user, pk) = Super
        THEN \E form \in Deletes : Handled(user, PostDeleteView(user, pk, form))
        ELSE Handled(user, Untouched(PostDeleteDispatch(user, pk)))

AddComment ==
    \E user \in Requesters, pk \in PostKeys :
        /\ nextComment <= MaxComments
        /\ IF AddCommentDispatch(user, pk) = Super
           THEN \E form \in CommentForms : Handled(user, add_comment(user, pk, form))
           ELSE Handled(user, Untouched(AddCommentDispatch(user, pk)))

CommentUpdate ==
    \E user \in Requesters, id \in CommentKeys :
        IF CommentDispatch(user, id) = Super
        THEN \E form \in CommentForms : Handled(user, CommentUpdateView(user, id, form))
        ELSE Handled(user, Untouched(CommentDispatch(user, id)))

CommentDelete ==
    \E user \in Requesters, id \in CommentKeys :
        IF CommentDispatch(user, id) = Super
        THEN \E form \in Deletes : Handled(user, CommentDeleteView(user, id, form))
        ELSE Handled(user, Untouched(CommentDispatch(user, id)))

ProfileUpdate(forms) ==
    \E user \in Requesters :
        IF LoginRequired(user) = Super
        THEN \E form \in forms : Handled(user, ProfileUpdateView(user, form))
        ELSE Handled(user, Untouched(LoginRequired(user)))

\* ------------------------------------------------------------ specifications
\* editing: posts, comments and profiles are created, changed and removed
Next ==
    \/ PostCreate(PlainPostForms, MaxPosts)
    \/ PostUpdate(PlainPostForms)
    \/ PostDelete
    \/ AddComment
    \/ CommentUpdate
    \/ CommentDelete
    \/ ProfileUpdate(PlainUserForms)

Spec == Init /\ [][Next]_vars

\* publishing: posts are scheduled, categories flipped, the clock runs, the
\* server restarts, and the listings are read
NextView ==
    \/ Tick
    \/ ImportViews
    \/ CategoryAdmin
    \/ PostCreate(PostForms, MaxListed)
    \/ PostUpdate(PostForms)
    \/ PostDelete
    \/ ProfileUpdate(UserForms)
    \/ Index
    \/ CategoryPosts
    \/ Profile

SpecView == Init /\ [][NextView]_vars

\* ------------------------------------------------------------------- claims
\* the visibility rule of the data model, at the clock of the request
Visible(pk) ==
    /\ posts[pk].is_published
    /\ categories[posts[pk].category]
    /\ posts[pk].pub_date <= now

PostsBy(author) == {pk \in DOMAIN posts : posts[pk].author = author}

\* the stored rows an outcome leaves are the ones it found
Unwritten(o) ==
    /\ o.users = users
    /\ o.posts = posts
    /\ o.comments = comments
    /\ o.nextPost = nextPost
    /\ o.nextComment = nextComment

\* a POST whose form validates
ValidPost(form) == form.method = "POST" /\ PostFormValid(form)

ValidComment(form) == form.method = "POST" /\ CommentFormValid(form.text)

\* C1: an index request made at time t lists a post if and only if the post is
\* published, its category is published and its pub_date <= t.
C1_IndexAtRequestTime ==
    IndexListView.resp.list = {pk \in DOMAIN posts : Visible(pk)}

\* C2: a post whose category is unpublished is in no public listing: not in
\* the index, not on a category page, not on its author's profile page when
\* anyone but the author requests it.
C2_UnpublishedCategoryHidden ==
    \A pk \in DOMAIN posts :
        ~categories[posts[pk].category] =>
            /\ pk \notin IndexListView.resp.list
            /\ \A slug \in Categories \cup {NoSuchSlug} :
                   pk \notin CategoryPostsListView(slug).resp.list
            /\ \A user \in Requesters \ {posts[pk].author}, username \in Names :
                   pk \notin ProfileDetailView(user, username).resp.list

\* C3: the profile page of u lists all of u's posts when u requests it, and
\* exactly u's visible posts when anyone else does.
C3_ProfileListing ==
    \A u \in Users, user \in Requesters :
        LET page == ProfileDetailView(user, users[u]).resp IN
        /\ page.kind = "page"
        /\ page.list = IF user = u
                       THEN PostsBy(u)
                       ELSE {pk \in PostsBy(u) : Visible(pk)}

\* C4: an anonymous update or delete of a post or comment is answered by the
\* login redirect, never by the ownership redirect, and writes nothing.
C4_AnonymousMeetsLoginGate ==
    /\ \A pk \in DOMAIN posts :
        /\ \A form \in PostForms :
               PostUpdateView(Anonymous, pk, form) = Untouched(RedirectLogin)
        /\ \A form \in Deletes :
               PostDeleteView(Anonymous, pk, form) = Untouched(RedirectLogin)
    /\ \A id \in DOMAIN comments :
        /\ \A form \in CommentForms :
               CommentUpdateView(Anonymous, id, form) = Untouched(RedirectLogin)
        /\ \A form \in Deletes :
               CommentDeleteView(Anonymous, id, form) = Untouched(RedirectLogin)

\* the part of C4 the handlers keep: such a request writes nothing
C4_NothingWritten ==
    /\ \A pk \in DOMAIN posts :
        /\ \A form \in PostForms : Unwritten(PostUpdateView(Anonymous, pk, form))
        /\ \A form \in Deletes : Unwritten(PostDeleteView(Anonymous, pk, form))
    /\ \A id \in DOMAIN comments :
        /\ \A form \in CommentForms : Unwritten(CommentUpdateView(Anonymous, id, form))
        /\ \A form \in Deletes : Unwritten(CommentDeleteView(Anonymous, id, form))

\* a row of rows that a step to rows2 changed or removed
Touched(rows, rows2, k) == k \notin DOMAIN rows2 \/ rows2[k] # rows[k]

\* what a request of a user who is not the author must leave: the redirect,
\* and every stored row
C5_OthersAreTurnedAway ==
    /\ \A pk \in DOMAIN posts : \A user \in Users \ {posts[pk].author} :
        /\ \A form \in PostForms :
               PostUpdateView(user, pk, form) = Untouched(Redirect("post_detail", pk))
        /\ \A form \in Deletes :
               PostDeleteView(user, pk, form) = Untouched(Redirect("index", 0))
    /\ \A id \in DOMAIN comments : \A user \in Users \ {comments[id].author} :
        /\ \A form \in CommentForms :
               CommentUpdateView(user, id, form)
                   = Untouched(Redirect("post_detail", comments[id].post))
        /\ \A form \in Deletes :
               CommentDeleteView(user, id, form)
                   = Untouched(Redirect("post_detail", comments[id].post))

\* what the same request of the author does: the update stores the form's
\* fields, the delete removes the row, and both redirect
C5_AuthorSucceeds ==
    /\ \A pk \in DOMAIN posts :
        /\ \A form \in PostForms :
               ValidPost(form) =>
                   LET o == PostUpdateView(posts[pk].author, pk, form) IN
                   /\ o.resp.kind = "redirect"
                   /\ o.posts[pk] = [author |-> posts[pk].author,
                                     category |-> form.category,
                                     is_published |-> form.is_published,
                                     pub_date |-> form.pub_date]
        /\ LET o == PostDeleteView(posts[pk].author, pk, [method |-> "POST"]) IN
           /\ o.resp = Redirect("index", 0)
           /\ pk \notin DOMAIN o.posts
    /\ \A id \in DOMAIN comments :
        /\ \A form \in CommentForms :
               ValidComment(form) =>
                   LET o == CommentUpdateView(comments[id].author, id, form) IN
                   /\ o.resp = Redirect("post_detail", comments[id].post)
                   /\ o.comments[id].text = form.text
        /\ LET o == CommentDeleteView(comments[id].author, id, [method |-> "POST"]) IN
           /\ o.resp = Redirect("post_detail", comments[id].post)
           /\ id \notin DOMAIN o.comments

\* a step in which every post changed or removed is one of the requester's
PostsTouchedByAuthor ==
    \A pk \in DOMAIN posts :
        Touched(posts, posts', pk) => actor' = posts[pk].author

\* C5 as stated: a non-author's update or delete is redirected and writes
\* nothing, the author's takes effect, and so every post or comment changed or
\* removed was changed or removed by a request of its own author.
C5_OnlyAuthorWrites ==
    /\ [](C5_OthersAreTurnedAway /\ C5_AuthorSucceeds)
    /\ [][/\ PostsTouchedByAuthor
          /\ \A id \in DOMAIN comments :
                 Touched(comments, comments', id) => actor' = comments[id].author
         ]_vars

\* C5 as amended: ... and so every post changed or removed was changed or
\* removed by a request of its own author, and every comment changed or
\* removed was changed or removed by a request of its own author or removed
\* together with its post by the post author's delete.
C5_OnlyAuthorWritesOrCascade ==
    /\ [](C5_OthersAreTurnedAway /\ C5_AuthorSucceeds)
    /\ [][/\ PostsTouchedByAuthor
          /\ \A id \in DOMAIN comments :
                 Touched(comments, comments', id) =>
                     \/ actor' = comments[id].author
                     \/ /\ id \notin DOMAIN comments'
                        /\ comments[id].post \in DOMAIN posts
                        /\ comments[id].post \notin DOMAIN posts'
                        /\ actor' = posts[comments[id].post].author
         ]_vars

\* a post's author has deleted it, and with it a comment of another user
C5_Witness ==
    /\ posts = <<>>
    /\ comments = <<>>
    /\ nextPost > 1
    /\ nextComment > 1
    /\ actor \in Users

\* the keys rows2 has and rows has not
Added(rows, rows2) == (DOMAIN rows2) \ (DOMAIN rows)

\* rows2 keeps every row of rows as it was
Kept(rows, rows2) == \A k \in DOMAIN rows : k \in DOMAIN rows2 /\ rows2[k] = rows[k]

\* C6: a valid comment-creation request of user u on post pk stores exactly
\* one new comment, on post pk and by u, whatever post and author keys the
\* form data carries, and redirects to the detail page of post pk.
C6_CommentPinned ==
    \A user \in Users, pk \in DOMAIN posts, form \in CommentForms :
        ValidComment(form) =>
            LET o == add_comment(user, pk, form) IN
            /\ Cardinality(Added(comments, o.comments)) = 1
            /\ \A id \in Added(comments, o.comments) :
                   /\ o.comments[id].post = pk
                   /\ o.comments[id].author = user
            /\ Kept(comments, o.comments)
            /\ o.posts = posts
            /\ o.resp = Redirect("post_detail", pk)

\* a stored comment of a user on a post of the other user
C6_Witness ==
    \E id \in DOMAIN comments :
        /\ comments[id].post \in DOMAIN posts
        /\ comments[id].author # posts[comments[id].post].author
        /\ actor = comments[id].author

\* C7: a comment is stored only on a post that exists and is visible at the
\* time of the request; a request for a post that does not exist is answered
\* not-found and stores nothing.
C7_CommentOnlyOnVisiblePost ==
    \A user \in Users, pk \in PostKeys, form \in CommentForms :
        LET o == add_comment(user, pk, form) IN
        /\ ~PostExists(pk) => o = Untouched(NotFound)
        /\ PostExists(pk) /\ ~Visible(pk) => o.comments = comments

\* C8: deleting a post removes all of its comments with it and no others, so
\* every stored comment is on a stored post; deleting a comment removes that
\* comment alone.
C8_PostDeleteCascades ==
    /\ \A id \in DOMAIN comments : comments[id].post \in DOMAIN posts
    /\ \A pk \in DOMAIN posts :
           LET o == PostDeleteView(posts[pk].author, pk, [method |-> "POST"]) IN
           /\ pk \notin DOMAIN o.posts
           /\ Kept(Without(posts, {pk}), o.posts)
           /\ \A id \in DOMAIN comments :
                  IF comments[id].post = pk
                  THEN id \notin DOMAIN o.comments
                  ELSE id \in DOMAIN o.comments /\ o.comments[id] = comments[id]
    /\ \A id \in DOMAIN comments :
           LET o == CommentDeleteView(comments[id].author, id, [method |-> "POST"]) IN
           /\ DOMAIN o.comments = (DOMAIN comments) \ {id}
           /\ Kept(Without(comments, {id}), o.comments)
           /\ o.posts = posts

\* a post and both comments on it are gone, the comments being of both users
C8_Witness ==
    /\ posts = <<>>
    /\ comments = <<>>
    /\ nextPost > 1
    /\ nextComment > MaxComments

\* a comment is stored beside a hole a deleted comment left
C8_CommentDeleted ==
    /\ nextComment > MaxComments
    /\ Cardinality(DOMAIN comments) = MaxComments - 1

\* C9: an invalid form submitted to a create or update handler stores nothing
\* and is answered by the form rendered again, not by a redirect.
C9_InvalidFormRerenders ==
    \A user \in Users :
        /\ \A form \in PostForms :
               form.method = "POST" /\ ~PostFormValid(form) =>
                   /\ Unwritten(PostCreateView(user, form))
                   /\ PostCreateView(user, form).resp.kind = "form"
                   /\ \A pk \in PostsBy(user) :
                          /\ Unwritten(PostUpdateView(user, pk, form))
                          /\ PostUpdateView(user, pk, form).resp.kind = "form"
        /\ \A form \in CommentForms :
               form.method = "POST" /\ ~CommentFormValid(form.text) =>
                   /\ \A pk \in DOMAIN posts :
                          /\ Unwritten(add_comment(user, pk, form))
                          /\ add_comment(user, pk, form).resp.kind = "form"
                   /\ \A id \in DOMAIN comments :
                          comments[id].author = user =>
                              /\ Unwritten(CommentUpdateView(user, id, form))
                              /\ CommentUpdateView(user, id, form).resp.kind = "form"
        /\ \A form \in UserForms :
               form.method = "POST" /\ ~UserFormValid(user, form) =>
                   /\ Unwritten(ProfileUpdateView(user, form))
                   /\ ProfileUpdateView(user, form).resp.kind = "form"

\* C10: a valid post-creation request of user u stores exactly one new post,
\* by u; no step changes the author of a stored post or the author or post of
\* a stored comment; so each stored row keeps the author it was created with.
C10_AuthorsFixed ==
    [][/\ Cardinality(Added(posts, posts')) = nextPost' - nextPost
       /\ Cardinality(Added(posts, posts')) <= 1
       /\ \A pk \in Added(posts, posts') : posts'[pk].author = actor'
       /\ \A id \in Added(comments, comments') : comments'[id].author = actor'
       /\ \A pk \in (DOMAIN posts) \cap (DOMAIN posts') :
              posts'[pk].author = posts[pk].author
       /\ \A id \in (DOMAIN comments) \cap (DOMAIN comments') :
              /\ comments'[id].author = comments[id].author
              /\ comments'[id].post = comments[id].post
      ]_vars

\* a stored post of one user, unpublished, with a comment of the other user
\* that an update has changed, after the post's author submitted a profile form
C10_Witness ==
    \E pk \in DOMAIN posts, id \in DOMAIN comments :
        /\ actor = posts[pk].author
        /\ nextPost > MaxPosts
        /\ ~posts[pk].is_published
        /\ comments[id].post = pk
        /\ comments[id].author # posts[pk].author
        /\ comments[id].text = "b"

====
